---- MODULE Spec2Model ----
(***************************************************************************)
(* PiBox5 photo booth: the upload worker (pibox5/upload/http_upload.py),   *)
(* the booth state machine and the preview thread                          *)
(* (pibox5/ui/main_window.py, pibox5/ui/screens/*.py) and the cameras'     *)
(* capture contract (pibox5/camera/*.py).                                  *)
(*                                                                         *)
(* The specifications share the variables:                                 *)
(*   SpecUpload   one HttpUploader: upload_async and its worker thread     *)
(*   SpecBooth    the GUI thread's handlers (countdown, capture, review,   *)
(*                settings) with the countdown's length varying            *)
(*   SpecCapture  the same handlers with the storage and upload settings   *)
(*                varying                                                  *)
(*   SpecPreview  the GUI thread together with the CameraThread            *)
(*   SpecBoothFair  SpecBooth with the event loop's timers served          *)
(*   SpecPreviewFair  SpecPreview with the camera thread scheduled         *)
(*   SpecClose    the GUI thread, the CameraThread and the uploader's      *)
(*                worker, the window being closed                          *)
(*   SpecReconfig the GUI thread together with the uploader's worker, the  *)
(*                camera options of the settings form varying              *)
(*   SpecShutdown one HttpUploader, its callers and a thread calling       *)
(*                shutdown                                                 *)
(*   SpecShutdownFair  SpecShutdown with the threads scheduled             *)
(*   SpecStorage  the GUI thread's handlers with the file name pattern     *)
(*                varying                                                  *)
(*   SpecSync     one HttpUploader, upload_async, its worker and a thread  *)
(*                calling upload_sync                                      *)
(*   SpecSyncRetry  the same, the endpoint's responses fixed by a script   *)
(*   SpecCamera   one camera (DummyCamera or GPhoto2Camera) called         *)
(*                directly                                                 *)
(* A Python Optional is a sequence: <<>> is None, <<x>> is the value x.    *)
(***************************************************************************)
EXTENDS Integers, Sequences, FiniteSets, TLC

\* ------------------------------------------------------------------ bounds
MaxRetry == 2        \* retry_count ranges over 0..MaxRetry
MaxJobs == 2         \* upload_async calls made on the stand-alone uploader
MaxCountdown == 3    \* countdown_seconds ranges over 1..MaxCountdown
MaxSessions == 2     \* countdowns started by the booth
MaxPending == 2      \* frame_ready emissions posted and not yet delivered
MaxShutdowns == 2    \* shutdown calls made on the stand-alone uploader
MaxCameraCalls == 4  \* calls made on the stand-alone camera
MaxNones == 2        \* cycles without a frame counted in a row
MaxScriptedJobs == 1 \* upload_async calls made while the endpoint is scripted
MaxSyncs == 1        \* upload_sync calls made on the stand-alone uploader

None == <<>>
Some(x) == <<x>>

\* The HttpUploader objects there can be: the one MainWindow.__init__ creates
\* through _setup_uploader, and one more for a later call of _setup_uploader.
UploaderIds == {1, 2}

\* --------------------------------------------------------------- variables
VARIABLES
  up,        \* up[u]: the HttpUploader instance u and its worker thread
  jobs,      \* history: jobs[j] for each task handed to upload_async
  screen,    \* MainWindow.screen_stack.currentIndex()
  gui,       \* what the GUI thread is doing: "loop", "capturing", ...
  cd,        \* CountdownScreen: _countdown_value, _timer, pending singleShot
  review,    \* ReviewScreen: _review_timer, the photo shown
  settings,  \* MainWindow.settings (the screens hold the same object)
  uploader,  \* MainWindow.uploader: None or Some(u)
  camera,    \* MainWindow.camera
  disk,      \* local storage: the files written
  round,     \* history of the current countdown/capture round
  pv,        \* MainWindow.camera_thread (CameraThread) and its thread
  posted,    \* frame_ready emissions queued for the GUI thread
  form,      \* SettingsScreen: its settings object and its widgets' values
  preview,   \* the LivePreview widgets of the idle and countdown screens
  sd         \* the thread calling HttpUploader.shutdown on uploader 1

vars == <<up, jobs, screen, gui, cd, review, settings, uploader, camera,
          disk, round, pv, posted, form, preview, sd>>

boothVars == <<screen, gui, cd, review, settings, uploader, camera, disk,
               round, form, preview>>
previewVars == <<pv, posted>>

\* ------------------------------------------------------------ HttpUploader
\* What one requests.post call can do.
Responses == {"ok", "http_error", "timeout", "connection_error", "exception"}

\* UploadTask(image_data, filename, timestamp, retry_count = 0); id is the
\* object's identity, the index of its history entry in jobs.
UploadTask(id, image_data, filename) ==
  [id |-> id, image_data |-> image_data, filename |-> filename,
   retry_count |-> 0]

UploadResult(success, filename, status_code, error_message) ==
  [success |-> success, filename |-> filename, status_code |-> status_code,
   error_message |-> error_message]

\* HttpUploader._do_upload: every outcome of the request becomes a result.
DoUpload(task, resp) ==
  CASE resp = "ok" ->
         UploadResult(TRUE, task.filename, Some(200), None)
    [] resp = "http_error" ->
         UploadResult(FALSE, task.filename, Some(500), Some(<<"HTTP 500">>))
    [] resp = "timeout" ->
         UploadResult(FALSE, task.filename, None, Some(<<"Request timeout">>))
    [] resp = "connection_error" ->
         UploadResult(FALSE, task.filename, None, Some(<<"Connection error">>))
    [] OTHER ->
         UploadResult(FALSE, task.filename, None, Some(<<"Upload error">>))

\* (mutant) the retry loop written as range(self.retry_count)
RetryAttemptsOffByOne(retry_count) == retry_count

\* range(self.retry_count + 1): the number of iterations of the retry loop.
RetryAttempts(retry_count) == retry_count + 1

\* The result after the loop: "Upload failed after {n} attempts: {last_error}".
FailureResult(task, retry_count, last_error) ==
  UploadResult(FALSE, task.filename, None,
    Some(<<"Upload failed after", retry_count + 1, "attempts", last_error>>))

\* (mutant) a LifoQueue: get returns the newest element
QueueGetLifo(q) == [item |-> q[Len(q)], rest |-> SubSeq(q, 1, Len(q) - 1)]

\* queue.Queue.get: the oldest element, removed from the queue.
QueueGet(q) == [item |-> Head(q), rest |-> Tail(q)]

\* (mutant) _upload_with_retry making one attempt only
UploadOnce(task, retry_count, resps, attempt, last_error) ==
  LET r == DoUpload(task, resps[1]) IN
    IF r.success THEN [result |-> r, attempts |-> 1]
    ELSE [result |-> FailureResult(task, retry_count, r.error_message),
          attempts |-> 1]

\* HttpUploader._upload_with_retry as one call: the loop from iteration
\* attempt on, resps[k] being what the k-th request does; the result it
\* returns and the number of requests it made.
RECURSIVE UploadWithRetry(_, _, _, _, _)
UploadWithRetry(task, retry_count, resps, attempt, last_error) ==
  IF attempt >= RetryAttempts(retry_count)
  THEN [result |-> FailureResult(task, retry_count, last_error),
        attempts |-> attempt]
  ELSE LET r == DoUpload(task, resps[attempt + 1]) IN
         IF r.success THEN [result |-> r, attempts |-> attempt + 1]
         ELSE UploadWithRetry(task, retry_count, resps, attempt + 1,
                              r.error_message)

\* The sequences of n responses of the endpoint.
ResponseSeqs(n) == [1..n -> Responses]

\* A thread calling upload_sync on the uploader: where it is, the counter
\* value it has read for a "+= 1", the result of its upload with the number
\* of requests made for it, and the number of calls made (history). script
\* is what the endpoint answers to the successive requests of a job, where
\* that is fixed in advance.
NoSync ==
  [pc |-> "idle", loaded |-> 0, success |-> FALSE, calls |-> 0,
   result |-> None, attempts |-> 0, script |-> <<>>]

\* HttpUploader.__init__ followed by _start_worker: the thread is started
\* with _running = True and is about to test the loop condition.
NewUploader(retry_count, has_on_success, has_on_error) ==
  [created |-> TRUE, retry_count |-> retry_count,
   has_on_success |-> has_on_success, has_on_error |-> has_on_error,
   queue |-> <<>>, unfinished |-> 0, running |-> TRUE,
   total |-> 0, successful |-> 0, failed |-> 0,
   pc |-> "check", task |-> None, attempt |-> 0, last_error |-> None,
   result |-> None, sync |-> NoSync]

\* An uploader id no instance has been created for yet.
NoUploader ==
  [created |-> FALSE, retry_count |-> 0,
   has_on_success |-> FALSE, has_on_error |-> FALSE,
   queue |-> <<>>, unfinished |-> 0, running |-> FALSE,
   total |-> 0, successful |-> 0, failed |-> 0,
   pc |-> "none", task |-> None, attempt |-> 0, last_error |-> None,
   result |-> None, sync |-> NoSync]

JobEntry(u) ==
  [uploader |-> u, attempts |-> 0, oks |-> 0, sleeps |-> 0,
   last_resp |-> None,
   outcome |-> None, counted |-> 0, on_success_calls |-> 0,
   on_error_calls |-> 0]

\* HttpUploader.upload_async(image_data, filename)
UploadAsync(u, image_data, filename) ==
  /\ up[u].created
  /\ LET task == UploadTask(Len(jobs) + 1, image_data, filename) IN
       up' = [up EXCEPT ![u].total = @ + 1,
                        ![u].queue = Append(@, task),
                        ![u].unfinished = @ + 1]
  /\ jobs' = Append(jobs, JobEntry(u))

\* _worker_loop: while self._running
WorkerCheck(u) ==
  /\ up[u].pc = "check"
  /\ up' = [up EXCEPT ![u].pc = IF up[u].running THEN "get" ELSE "exited"]
  /\ UNCHANGED jobs

\* The loop's exit or next iteration after iteration w.attempt of
\* _upload_with_retry ends without a successful result.
LoopNext(w) ==
  IF w.attempt + 1 < RetryAttempts(w.retry_count)
  THEN [w EXCEPT !.attempt = @ + 1, !.pc = "attempt"]
  ELSE [w EXCEPT !.pc = "resolve",
                 !.result = Some(FailureResult(w.task[1], w.retry_count,
                                               w.last_error))]

\* _worker_loop: task = self._queue.get(timeout=1.0); queue.Empty -> continue.
\* With a task, _upload_with_retry starts: last_error = None, first iteration.
WorkerGet(u) ==
  /\ up[u].pc = "get"
  /\ IF up[u].queue = <<>>
     THEN up' = [up EXCEPT ![u].pc = "check"]
     ELSE LET w == [up[u] EXCEPT !.task = Some(QueueGet(up[u].queue).item),
                                 !.queue = QueueGet(up[u].queue).rest,
                                 !.attempt = 0,
                                 !.last_error = None,
                                 !.result = None]
          IN up' = [up EXCEPT ![u] =
                      IF 0 < RetryAttempts(w.retry_count)
                      THEN [w EXCEPT !.pc = "attempt"]
                      ELSE [w EXCEPT !.pc = "resolve",
                                     !.result = Some(FailureResult(
                                        w.task[1], w.retry_count, None))]]
  /\ UNCHANGED jobs

\* (mutant) the loop without "if result.success: return result"
WorkerAttemptNoReturn(u, resp) ==
  /\ up[u].pc = "attempt"
  /\ LET w == up[u]
         r == DoUpload(w.task[1], resp)
         j == w.task[1].id
         f == [w EXCEPT !.last_error = r.error_message]
     IN /\ up' = [up EXCEPT ![u] =
                   IF f.attempt < f.retry_count
                   THEN [f EXCEPT !.pc = "sleep"]
                   ELSE LoopNext(f)]
        /\ jobs' = [jobs EXCEPT ![j].attempts = @ + 1,
                                ![j].oks = IF resp = "ok" THEN @ + 1 ELSE @,
                                ![j].last_resp = Some(resp)]

\* _upload_with_retry: one iteration's result = self._do_upload(task).
WorkerAttempt(u, resp) ==
  /\ up[u].pc = "attempt"
  /\ LET w == up[u]
         r == DoUpload(w.task[1], resp)
         j == w.task[1].id
     IN /\ up' = [up EXCEPT ![u] =
                   IF r.success
                   THEN [w EXCEPT !.result = Some(r), !.pc = "resolve"]
                   ELSE LET f == [w EXCEPT !.last_error = r.error_message]
                        IN IF f.attempt < f.retry_count
                           THEN [f EXCEPT !.pc = "sleep"]
                           ELSE LoopNext(f)]
        /\ jobs' = [jobs EXCEPT ![j].attempts = @ + 1,
                                ![j].oks = IF resp = "ok" THEN @ + 1 ELSE @,
                                ![j].last_resp = Some(resp)]

\* _upload_with_retry: time.sleep(self.retry_delay), then the next iteration.
WorkerSleep(u) ==
  /\ up[u].pc = "sleep"
  /\ up' = [up EXCEPT ![u] = LoopNext(up[u])]
  /\ jobs' = [jobs EXCEPT ![up[u].task[1].id].sleeps = @ + 1]

\* (mutant) the else branch lost: every result is counted as failed
CountResultNoElse(w, r) ==
  [w EXCEPT !.successful = IF r.success THEN @ + 1 ELSE @,
            !.failed = @ + 1]

\* _worker_loop: if result.success: self._successful_uploads += 1
\*               else: self._failed_uploads += 1
CountResult(w, r) ==
  [w EXCEPT !.successful = IF r.success THEN @ + 1 ELSE @,
            !.failed = IF r.success THEN @ ELSE @ + 1]

\* _worker_loop: count the result, call the callback if one is set, then
\* task_done(); a callback that raises skips task_done() (except Exception).
WorkerResolve(u, raises) ==
  /\ up[u].pc = "resolve"
  /\ LET w == up[u]
         r == w.result[1]
         j == w.task[1].id
         called == IF r.success THEN w.has_on_success ELSE w.has_on_error
     IN /\ raises => called
        /\ up' = [up EXCEPT ![u] =
                    [CountResult(w, r) EXCEPT
                       !.unfinished = IF raises THEN @ ELSE @ - 1,
                       !.pc = "check"]]
        /\ jobs' = [jobs EXCEPT
                    ![j].outcome = Some(r),
                    ![j].counted = @ + 1,
                    ![j].on_success_calls =
                       IF r.success /\ w.has_on_success THEN @ + 1 ELSE @,
                    ![j].on_error_calls =
                       IF ~r.success /\ w.has_on_error THEN @ + 1 ELSE @]

\* ------------------------------------------------------------------ camera
CaptureResult(success, image_data, error_message) ==
  [success |-> success, image_data |-> image_data,
   error_message |-> error_message]

\* The JPEG bytes of the n-th capture (the image carries its time stamp).
Jpeg(n) == <<n>>

\* Python truth of an Optional[bytes]: neither None nor b"".
Truthy(opt) == opt # None /\ opt[1] # <<>>

\* (mutant) a capture_photo that does not test the connection first
CapturePhotoNoCheck(cam, n) ==
  IF cam.kind = "dummy"
  THEN {CaptureResult(TRUE, Some(Jpeg(n)), None)}
  ELSE {CaptureResult(TRUE, Some(Jpeg(n)), None),
        CaptureResult(TRUE, Some(<<>>), None),
        CaptureResult(FALSE, None, Some("Capture failed"))}

\* DummyCamera.capture_photo / GPhoto2Camera.capture_photo: the results the
\* call can return for the n-th capture.
CapturePhoto(cam, n) ==
  IF ~cam.connected
  THEN {CaptureResult(FALSE, None, Some("Camera not connected"))}
  ELSE IF cam.kind = "dummy"
  THEN {CaptureResult(TRUE, Some(Jpeg(n)), None)}
  ELSE {CaptureResult(TRUE, Some(Jpeg(n)), None),
        CaptureResult(TRUE, Some(<<>>), None),
        CaptureResult(FALSE, None, Some("Capture failed"))}

\* CameraConfig(name, label, value, choices, readonly)
CameraConfig(value, choices, readonly) ==
  [value |-> value, choices |-> choices, readonly |-> readonly]

\* DummyCamera.__init__: self._settings
DummyOptions ==
  [name \in {"iso", "aperture", "shutterspeed", "imageformat"} |->
     CASE name = "iso" ->
            CameraConfig("400", {"auto", "100", "200", "400", "800", "1600"},
                         FALSE)
       [] name = "aperture" ->
            CameraConfig("5.6", {"auto", "2.8", "4.0", "5.6", "8.0", "11",
                                 "16"}, FALSE)
       [] name = "shutterspeed" ->
            CameraConfig("1/125", {"auto", "1/30", "1/60", "1/125", "1/250",
                                   "1/500"}, FALSE)
       [] OTHER ->
            CameraConfig("Large Fine JPEG",
                         {"Large Fine JPEG", "Large Normal JPEG", "RAW"},
                         FALSE)]

\* The widgets of the device behind a GPhoto2Camera, as get_config reads
\* them: a radio widget with its choices and a read-only text widget.
DeviceOptions ==
  [name \in {"iso", "serialnumber"} |->
     IF name = "iso"
     THEN CameraConfig("400", {"auto", "100", "200", "400", "800", "1600"},
                       FALSE)
     ELSE CameraConfig("SN1", {}, TRUE)]

\* DummyCamera() / GPhoto2Camera() after __init__. session is the gp.Camera
\* object held in self._camera (the n-th one created), start_time the call
\* at which DummyCamera._start_time was last taken from the clock, calls the
\* number of calls made on the camera and ret what the last of them was and
\* returned (history; out holds a returned CaptureResult).
NewCamera(kind) ==
  [kind |-> kind, connected |-> FALSE, preview_active |-> FALSE,
   start_time |-> 0, session |-> None, opened |-> 0,
   options |-> IF kind = "dummy" THEN DummyOptions ELSE DeviceOptions,
   calls |-> 0, ret |-> None]

Returned(cam, op, name, value, result) ==
  [cam EXCEPT !.calls = @ + 1,
              !.ret = Some([op |-> op, name |-> name, value |-> value,
                            result |-> result, out |-> None])]

\* capture_photo was called on the camera and returned captured.
Captured(cam, captured) ==
  [cam EXCEPT !.calls = @ + 1,
              !.ret = Some([op |-> "capture_photo", name |-> "", value |-> "",
                            result |-> captured.success,
                            out |-> Some(captured)])]

\* DummyCamera.connect; GPhoto2Camera.connect, where init_ok tells whether
\* gp.Camera().init() and get_abilities() succeed or raise GPhoto2Error.
Connect(cam, init_ok) ==
  IF cam.kind = "dummy"
  THEN Returned([cam EXCEPT !.connected = TRUE,
                            !.start_time = cam.calls + 1],
                "connect", "", "", TRUE)
  ELSE Returned([cam EXCEPT !.session = Some(cam.opened + 1),
                            !.opened = @ + 1,
                            !.connected = init_ok],
                "connect", "", "", init_ok)

\* DummyCamera.set_config; GPhoto2Camera.set_config, where accepted tells
\* whether widget.set_value and camera.set_config go through or raise
\* GPhoto2Error (the code does not compare value with the widget's choices).
SetConfig(cam, name, value, accepted) ==
  IF cam.kind = "dummy"
  THEN IF name \in DOMAIN cam.options /\ value \in cam.options[name].choices
       THEN Returned([cam EXCEPT !.options[name].value = value],
                     "set_config", name, value, TRUE)
       ELSE Returned(cam, "set_config", name, value, FALSE)
  ELSE IF ~cam.connected \/ cam.session = None
       THEN Returned(cam, "set_config", name, value, FALSE)
       ELSE IF name \notin DOMAIN cam.options
       THEN Returned(cam, "set_config", name, value, FALSE)
       ELSE IF cam.options[name].readonly
       THEN Returned(cam, "set_config", name, value, FALSE)
       ELSE IF accepted
       THEN Returned([cam EXCEPT !.options[name].value = value],
                     "set_config", name, value, TRUE)
       ELSE Returned(cam, "set_config", name, value, FALSE)

\* CameraBase.start_preview
StartPreview(cam) ==
  Returned([cam EXCEPT !.preview_active = TRUE], "start_preview", "", "",
           TRUE)

\* The cameras MainWindow._setup_camera can end up with: the dummy camera
\* always connects, GPhoto2Camera.connect may fail.
Cameras ==
  {Connect(NewCamera("dummy"), TRUE),
   Connect(NewCamera("gphoto2"), TRUE),
   Connect(NewCamera("gphoto2"), FALSE)}

\* -------------------------------------------------------------- MainWindow
SCREEN_IDLE == 0
SCREEN_COUNTDOWN == 1
SCREEN_REVIEW == 2
SCREEN_SETTINGS == 3

\* A piece of a file name: literal text, or the text strftime made of the
\* clock's value at.
Lit(text) == [text |-> text, at |-> 0]
Strftime(now) == [text |-> "%Y%m%d_%H%M%S", at |-> now]

\* str.replace on a name given as its sequence of pieces
Replace(pattern, old, new) ==
  [i \in DOMAIN pattern |-> IF pattern[i] = old THEN new ELSE pattern[i]]

\* StorageSettings.filename_pattern = "photo_{timestamp}.jpg"
DefaultPattern == <<Lit("photo_"), Lit("{timestamp}"), Lit(".jpg")>>

\* The fields of Settings the booth reads.
MakeSettings(countdown, fps, save_locally, enabled, url, on_capture, retry) ==
  [countdown_seconds |-> countdown, preview_fps |-> fps,
   save_locally |-> save_locally, upload_enabled |-> enabled,
   upload_url |-> url, upload_on_capture |-> on_capture,
   upload_retry_count |-> retry, camera_iso |-> "auto",
   filename_pattern |-> DefaultPattern]

\* What has happened since the n-th press of the photo button, which started
\* a countdown of the given duration (history of the round, read by no
\* handler).
NewRound(n, duration) ==
  [sessions |-> n, duration |-> duration, ticks |-> 0, captures |-> 0,
   result |-> None, save |-> "none", enqueued |-> 0, ignored |-> FALSE]

\* CountdownScreen.start_countdown
StartCountdown ==
  cd' = [cd EXCEPT !.value = settings.countdown_seconds, !.timer = TRUE]

\* MainWindow._on_photo_button
OnPhotoButton ==
  /\ screen' = SCREEN_COUNTDOWN
  /\ StartCountdown
  /\ round' = NewRound(round.sessions + 1, settings.countdown_seconds)
  /\ UNCHANGED <<gui, review, settings, uploader, camera, disk, up, jobs,
                 form, preview, sd>>

\* The photo button of the idle screen is clicked
\* (IdleScreen._on_photo_click -> photo_button_clicked).
ClickPhotoButton ==
  /\ gui.at = "loop" /\ ~gui.closed
  /\ screen = SCREEN_IDLE
  /\ round.sessions < MaxSessions
  /\ OnPhotoButton
  /\ UNCHANGED previewVars

\* (mutant) keyPressEvent without the currentIndex() == SCREEN_IDLE test
KeySpaceUnguarded ==
  /\ gui.at = "loop" /\ ~gui.closed
  /\ round.sessions < MaxSessions
  /\ OnPhotoButton
  /\ UNCHANGED previewVars

\* MainWindow.keyPressEvent, Key_Space
KeySpace ==
  /\ gui.at = "loop" /\ ~gui.closed
  /\ IF screen = SCREEN_IDLE
     THEN round.sessions < MaxSessions /\ OnPhotoButton
     ELSE /\ round' = [round EXCEPT !.ignored = TRUE]
          /\ UNCHANGED <<screen, cd, gui, review, settings, uploader,
                         camera, disk, up, jobs, form, preview, sd>>
  /\ UNCHANGED previewVars

\* SettingsScreen.showEvent -> _load_settings: every widget takes its value
\* from the screen's own settings object.
LoadSettings(f) == [f EXCEPT !.values = f.base]

\* SettingsScreen._save_settings: a deep copy of the screen's settings with
\* every field overwritten by its widget's value.
SaveSettings(f) == f.values

\* (mutant) a settings button that is also reachable outside the idle screen
ClickSettingsButtonAnyScreen ==
  /\ gui.at = "loop" /\ ~gui.closed
  /\ screen # SCREEN_SETTINGS
  /\ screen' = SCREEN_SETTINGS
  /\ form' = LoadSettings(form)
  /\ UNCHANGED <<gui, cd, review, settings, uploader, camera, disk, round,
                 up, jobs, pv, posted, preview, sd>>

\* The settings button of the idle screen: MainWindow._on_settings_button;
\* showing the settings screen reloads its widgets.
ClickSettingsButton ==
  /\ gui.at = "loop" /\ ~gui.closed
  /\ screen = SCREEN_IDLE
  /\ screen' = SCREEN_SETTINGS
  /\ form' = LoadSettings(form)
  /\ UNCHANGED <<gui, cd, review, settings, uploader, camera, disk, round,
                 up, jobs, pv, posted, preview, sd>>

\* (mutant) _tick testing self._countdown_value < 0
TickBodyBelowZero ==
  LET v == cd.value - 1 IN
  IF v < 0
  THEN cd' = [cd EXCEPT !.value = v, !.timer = FALSE, !.finish = @ + 1]
  ELSE cd' = [cd EXCEPT !.value = v]

\* CountdownScreen._tick
TickBody ==
  LET v == cd.value - 1 IN
  IF v <= 0
  THEN cd' = [cd EXCEPT !.value = v, !.timer = FALSE, !.finish = @ + 1]
  ELSE cd' = [cd EXCEPT !.value = v]

\* The countdown timer's timeout (every 1000 ms while it is active)
Tick ==
  /\ gui.at = "loop" /\ ~gui.closed
  /\ cd.timer
  /\ TickBody
  /\ round' = [round EXCEPT !.ticks = @ + 1]
  /\ UNCHANGED <<screen, gui, review, settings, uploader, camera, disk,
                 up, jobs, pv, posted, form, preview, sd>>

\* QTimer.singleShot(300, _finish_countdown) fires: countdown_finished is
\* emitted and MainWindow._on_countdown_finished calls camera.capture_photo(),
\* which blocks the GUI thread until CaptureReturn.
FinishCountdown ==
  /\ gui.at = "loop" /\ ~gui.closed
  /\ cd.finish > 0
  /\ cd' = [cd EXCEPT !.finish = @ - 1]
  /\ gui' = [gui EXCEPT !.at = "capturing"]
  /\ round' = [round EXCEPT !.captures = @ + 1]
  /\ UNCHANGED <<screen, review, settings, uploader, camera, disk,
                 up, jobs, pv, posted, form, preview, sd>>

\* The name _save_photo_locally gives the file written at the time now (the
\* clock reads a new second in every round: a countdown lasts 1.5 s at
\* least).
PhotoFileName(pattern, now) ==
  Replace(pattern, Lit("{timestamp}"), Strftime(now))

\* open(filepath, "wb") followed by f.write(data)
WriteFile(files, name, data) ==
  {f \in files : f.name # name} \cup {[name |-> name, data |-> data]}

\* (mutant) a file name that keeps the placeholder
SavePhotoLocallyRawPattern(image_data, save) ==
  disk' = [disk EXCEPT
     !.files = IF save = "failed" THEN @
               ELSE WriteFile(@, settings.filename_pattern,
                              IF save = "ok" THEN image_data ELSE <<>>)]

\* MainWindow._save_photo_locally. save says how far the try block gets:
\* "ok" to its end, "failed" when ensure_photos_dir or open raises (nothing
\* is written), "partial" when the write raises after open has created the
\* file (left empty here); the handler only prints the exception.
SavePhotoLocally(image_data, save) ==
  disk' = [disk EXCEPT
     !.files = IF save = "failed" THEN @
               ELSE WriteFile(@, PhotoFileName(settings.filename_pattern,
                                               round.sessions),
                              IF save = "ok" THEN image_data ELSE <<>>)]

\* (mutant) _upload_photo without the upload_async call
UploadPhotoSkipped(image_data) == UNCHANGED <<up, jobs>>

\* (mutant) _upload_photo making the first attempt itself before it queues
UploadPhotoInline(image_data) ==
  IF uploader # None
  THEN /\ up' = [up EXCEPT
                   ![uploader[1]].total = @ + 1,
                   ![uploader[1]].queue =
                      Append(@, UploadTask(Len(jobs) + 1, image_data,
                                           round.sessions)),
                   ![uploader[1]].unfinished = @ + 1]
       /\ jobs' = Append(jobs, [JobEntry(uploader[1]) EXCEPT !.attempts = 1])
  ELSE UNCHANGED <<up, jobs>>

\* MainWindow._upload_photo
UploadPhoto(image_data) ==
  IF uploader # None
  THEN UploadAsync(uploader[1], image_data, round.sessions)
  ELSE UNCHANGED <<up, jobs>>

\* (mutant) _on_countdown_finished showing the review screen on a failure too
OnCaptureResultAlwaysReview(result, save) ==
  /\ screen' = SCREEN_REVIEW
  /\ review' = IF result.success /\ Truthy(result.image_data)
               THEN [last_photo_data |-> result.image_data,
                     photo |-> result.image_data, timer |-> TRUE]
               ELSE [review EXCEPT !.timer = TRUE]
  /\ IF result.success /\ Truthy(result.image_data)
     THEN /\ IF settings.save_locally
             THEN SavePhotoLocally(result.image_data[1], save)
             ELSE UNCHANGED disk
          /\ IF settings.upload_on_capture /\ uploader # None
             THEN UploadPhoto(result.image_data[1])
             ELSE UNCHANGED <<up, jobs>>
          /\ round' = [round EXCEPT
               !.result = Some(result),
               !.save = IF settings.save_locally THEN save ELSE "skipped",
               !.enqueued = Len(jobs') - Len(jobs)]
     ELSE /\ round' = [round EXCEPT !.result = Some(result)]
          /\ UNCHANGED <<disk, up, jobs>>

\* (mutant) _save_photo_locally without its try/except: the exception leaves
\* _on_countdown_finished before the review screen is shown
OnCaptureResultSaveRaises(result, save) ==
  IF result.success /\ Truthy(result.image_data)
  THEN /\ IF settings.save_locally
          THEN SavePhotoLocally(result.image_data[1], save)
          ELSE UNCHANGED disk
       /\ IF save = "ok"
          THEN /\ review' = [last_photo_data |-> result.image_data,
                             photo |-> result.image_data, timer |-> TRUE]
               /\ screen' = SCREEN_REVIEW
               /\ IF settings.upload_on_capture /\ uploader # None
                  THEN UploadPhoto(result.image_data[1])
                  ELSE UNCHANGED <<up, jobs>>
          ELSE UNCHANGED <<review, screen, up, jobs>>
       /\ round' = [round EXCEPT
            !.result = Some(result),
            !.save = IF settings.save_locally THEN save ELSE "skipped",
            !.enqueued = Len(jobs') - Len(jobs)]
  ELSE /\ screen' = SCREEN_IDLE
       /\ round' = [round EXCEPT !.result = Some(result)]
       /\ UNCHANGED <<disk, review, up, jobs>>

\* (mutant) _on_countdown_finished testing result.success alone
OnCaptureResultSuccessOnly(result, save) ==
  IF result.success
  THEN /\ IF settings.save_locally
          THEN SavePhotoLocally(result.image_data[1], save)
          ELSE UNCHANGED disk
       /\ review' = [last_photo_data |-> result.image_data,
                     photo |-> result.image_data, timer |-> TRUE]
       /\ screen' = SCREEN_REVIEW
       /\ IF settings.upload_on_capture /\ uploader # None
          THEN UploadPhoto(result.image_data[1])
          ELSE UNCHANGED <<up, jobs>>
       /\ round' = [round EXCEPT
            !.result = Some(result),
            !.save = IF settings.save_locally THEN save ELSE "skipped",
            !.enqueued = Len(jobs') - Len(jobs)]
  ELSE /\ screen' = SCREEN_IDLE
       /\ round' = [round EXCEPT !.result = Some(result)]
       /\ UNCHANGED <<disk, review, up, jobs>>

\* MainWindow._on_countdown_finished from the return of capture_photo on.
OnCaptureResult(result, save) ==
  IF result.success /\ Truthy(result.image_data)
  THEN /\ IF settings.save_locally
          THEN SavePhotoLocally(result.image_data[1], save)
          ELSE UNCHANGED disk
       /\ review' = [last_photo_data |-> result.image_data,
                     photo |-> result.image_data, timer |-> TRUE]
       /\ screen' = SCREEN_REVIEW
       /\ IF settings.upload_on_capture /\ uploader # None
          THEN UploadPhoto(result.image_data[1])
          ELSE UNCHANGED <<up, jobs>>
       /\ round' = [round EXCEPT
            !.result = Some(result),
            !.save = IF settings.save_locally THEN save ELSE "skipped",
            !.enqueued = Len(jobs') - Len(jobs)]
  ELSE /\ screen' = SCREEN_IDLE
       /\ round' = [round EXCEPT !.result = Some(result)]
       /\ UNCHANGED <<disk, review, up, jobs>>

SaveOutcomes == {"ok", "failed", "partial"}

\* camera.capture_photo() returns to MainWindow._on_countdown_finished.
CaptureReturn ==
  /\ gui.at = "capturing"
  /\ \E result \in CapturePhoto(camera, round.sessions), save \in SaveOutcomes :
       /\ (save # "ok") => (settings.save_locally /\ result.success
                            /\ Truthy(result.image_data))
       /\ OnCaptureResult(result, save)
  /\ gui' = [gui EXCEPT !.at = "loop"]
  /\ UNCHANGED <<cd, settings, uploader, camera, pv, posted, form, preview,
                 sd>>

\* (mutant) a review timeout that stops the timer but keeps the review screen
ReviewTimeoutStays ==
  /\ gui.at = "loop" /\ ~gui.closed
  /\ review.timer
  /\ review' = [review EXCEPT !.timer = FALSE]
  /\ UNCHANGED <<screen, gui, cd, settings, uploader, camera, disk, round,
                 up, jobs, pv, posted, form, preview, sd>>

\* ReviewScreen._on_review_timeout -> review_finished ->
\* MainWindow._on_review_finished
ReviewTimeout ==
  /\ gui.at = "loop" /\ ~gui.closed
  /\ review.timer
  /\ review' = [review EXCEPT !.timer = FALSE]
  /\ screen' = SCREEN_IDLE
  /\ UNCHANGED <<gui, cd, settings, uploader, camera, disk, round,
                 up, jobs, pv, posted, form, preview, sd>>

\* (mutant) _on_settings_saved running to its end: _setup_uploader creates a
\* new HttpUploader next to the old one and the idle screen is shown
OnSettingsSavedToTheEnd(new, aborts) ==
  /\ settings' = new
  /\ screen' = SCREEN_IDLE
  /\ IF new.upload_enabled /\ new.upload_url # ""
     THEN LET u == IF uploader = Some(1) THEN 2 ELSE 1
          IN /\ uploader' = Some(u)
             /\ up' = [up EXCEPT
                         ![u] = NewUploader(new.upload_retry_count, FALSE,
                                            FALSE)]
     ELSE uploader' = None /\ up' = up
  /\ UNCHANGED <<gui, cd, review, camera, disk, round, jobs,
                 pv, posted, form, preview, sd>>

\* MainWindow._on_settings_saved(new_settings): self.settings is replaced
\* and written to the settings file, the idle, countdown and review screens
\* take the new object, and then self.settings_screen.refresh_settings
\* raises AttributeError (SettingsScreen defines no refresh_settings): the
\* preview fps, the theme, _setup_uploader and setCurrentIndex(SCREEN_IDLE)
\* are never reached. PyQt6 hands an exception that leaves a slot to
\* sys.excepthook: the default hook ends the process through qFatal
\* (aborts), a hook installed by the host lets the event loop go on.
OnSettingsSaved(new, aborts) ==
  /\ settings' = new
  /\ gui' = IF aborts THEN [gui EXCEPT !.at = "aborted"] ELSE gui
  /\ UNCHANGED <<screen, cd, review, uploader, camera, disk, round, up, jobs,
                 pv, posted, form, preview, sd>>

\* A widget of the settings screen is edited: the form holds the values e.
EditForm(e) ==
  /\ gui.at = "loop" /\ ~gui.closed
  /\ screen = SCREEN_SETTINGS
  /\ form.values # e
  /\ form' = [form EXCEPT !.values = e]
  /\ UNCHANGED <<screen, gui, cd, review, settings, uploader, camera, disk,
                 round, up, jobs, pv, posted, preview, sd>>

\* The settings screen's save button: SettingsScreen._on_save
SettingsSaved ==
  /\ gui.at = "loop" /\ ~gui.closed
  /\ screen = SCREEN_SETTINGS
  /\ \E aborts \in BOOLEAN : OnSettingsSaved(SaveSettings(form), aborts)

\* (mutant) the cancel button emitting settings_saved with the form's values
SettingsClosedApplies ==
  /\ gui.at = "loop" /\ ~gui.closed
  /\ screen = SCREEN_SETTINGS
  /\ screen' = SCREEN_IDLE
  /\ settings' = SaveSettings(form)
  /\ UNCHANGED <<gui, cd, review, uploader, camera, disk, round,
                 up, jobs, pv, posted, form, preview, sd>>

\* The settings screen's cancel button: SettingsScreen._on_cancel ->
\* MainWindow._on_settings_closed
SettingsClosed ==
  /\ gui.at = "loop" /\ ~gui.closed
  /\ screen = SCREEN_SETTINGS
  /\ screen' = SCREEN_IDLE
  /\ UNCHANGED <<gui, cd, review, settings, uploader, camera, disk, round,
                 up, jobs, pv, posted, form, preview, sd>>

\* ------------------------------------------------------------ CameraThread
\* DummyCamera.get_preview_frame / GPhoto2Camera.get_preview_frame
GetPreviewFrame(cam) ==
  IF ~cam.connected THEN {None}
  ELSE IF cam.kind = "dummy" THEN {Some("frame")}
  ELSE {Some("frame"), None}

\* CameraThread(camera, fps) after start(): run() has not been entered yet.
\* nones counts the cycles in a row, up to MaxNones, in which
\* get_preview_frame returned None (history).
NewCameraThread(fps) ==
  [exists |-> TRUE, running |-> FALSE, fps |-> fps, interval_ms |-> 0,
   pc |-> "start", cycle_fps |-> 0, stop_returned |-> FALSE, nones |-> 0]

\* MainWindow.camera_thread is None (the camera did not connect).
NoCameraThread ==
  [exists |-> FALSE, running |-> FALSE, fps |-> 0, interval_ms |-> 0,
   pc |-> "none", cycle_fps |-> 0, stop_returned |-> FALSE, nones |-> 0]

\* interval_ms = 1000 // self.fps
IntervalMs(fps) == 1000 \div fps

\* CameraThread.run: self._running = True; interval_ms = 1000 // self.fps
PvRun ==
  /\ pv.pc = "start"
  /\ gui.at # "aborted"
  /\ pv' = [pv EXCEPT !.running = TRUE, !.interval_ms = IntervalMs(pv.fps),
                      !.pc = "check"]
  /\ UNCHANGED <<posted, up, jobs, sd>> /\ UNCHANGED boothVars

\* CameraThread.run: while self._running; a cycle starts with the call of
\* camera.get_preview_frame() (cycle_fps: self.fps as the cycle starts).
PvCheck ==
  /\ pv.pc = "check"
  /\ gui.at # "aborted"
  /\ pv' = IF pv.running
           THEN [pv EXCEPT !.pc = "acquire", !.cycle_fps = pv.fps]
           ELSE [pv EXCEPT !.pc = "done"]
  /\ UNCHANGED <<posted, up, jobs, sd>> /\ UNCHANGED boothVars

\* (mutant) a loop that doubles its wait after a cycle without a frame
PvFrameBackoff ==
  /\ pv.pc = "acquire"
  /\ gui.at # "aborted"
  /\ \E frame \in GetPreviewFrame(camera) :
       IF frame # None
       THEN /\ Len(posted) < MaxPending /\ posted' = Append(posted, frame[1])
            /\ pv' = [pv EXCEPT !.pc = "sleep", !.nones = 0]
       ELSE /\ posted' = posted
            /\ pv' = [pv EXCEPT !.pc = "sleep",
                                !.interval_ms = 2 * IntervalMs(pv.fps),
                                !.nones = IF @ < MaxNones THEN @ + 1 ELSE @]
  /\ UNCHANGED <<up, jobs, sd>> /\ UNCHANGED boothVars

\* camera.get_preview_frame() returns; a frame is emitted (frame_ready is
\* queued for the GUI thread), None is not; then self.msleep(interval_ms)
\* starts.
PvFrame ==
  /\ pv.pc = "acquire"
  /\ gui.at # "aborted"
  /\ \E frame \in GetPreviewFrame(camera) :
       IF frame # None
       THEN /\ Len(posted) < MaxPending /\ posted' = Append(posted, frame[1])
            /\ pv' = [pv EXCEPT !.pc = "sleep", !.nones = 0]
       ELSE /\ posted' = posted
            /\ pv' = [pv EXCEPT !.pc = "sleep",
                                !.nones = IF @ < MaxNones THEN @ + 1 ELSE @]
  /\ UNCHANGED <<up, jobs, sd>> /\ UNCHANGED boothVars

\* msleep(interval_ms) ends.
PvWake ==
  /\ pv.pc = "sleep"
  /\ gui.at # "aborted"
  /\ pv' = [pv EXCEPT !.pc = "check"]
  /\ UNCHANGED <<posted, up, jobs, sd>> /\ UNCHANGED boothVars

\* (mutant) _on_preview_frame without the test of the current screen
OnPreviewFrameAnyScreen(frame) ==
  preview' = [preview EXCEPT !.idle = Some([frame |-> frame, blur |-> TRUE])]

\* MainWindow._on_preview_frame(frame): idle_screen.update_preview(frame,
\* blur=True) on the idle screen, countdown_screen.update_preview(frame,
\* blur=False) on the countdown screen, nothing on the others.
OnPreviewFrame(frame) ==
  preview' =
    IF screen = SCREEN_IDLE
    THEN [preview EXCEPT !.idle = Some([frame |-> frame, blur |-> TRUE])]
    ELSE IF screen = SCREEN_COUNTDOWN
    THEN [preview EXCEPT
            !.countdown = Some([frame |-> frame, blur |-> FALSE])]
    ELSE preview

\* The GUI thread's event loop delivers a queued frame_ready emission to
\* MainWindow._on_preview_frame. Posted events are still delivered after the
\* window has closed, until the event loop exits.
DeliverFrame ==
  /\ gui.at = "loop"
  /\ posted # <<>>
  /\ OnPreviewFrame(Head(posted))
  /\ posted' = Tail(posted)
  /\ UNCHANGED <<screen, gui, cd, review, settings, uploader, camera, disk,
                 round, pv, up, jobs, form, sd>>

\* (mutant) a disconnect that leaves the preview flag as it is
DisconnectKeepsPreview(cam) ==
  Returned([cam EXCEPT !.connected = FALSE, !.session = None],
           "disconnect", "", "", TRUE)

\* CameraBase subclasses' disconnect()
Disconnect(cam) ==
  Returned([cam EXCEPT !.connected = FALSE, !.preview_active = FALSE,
                       !.session = None],
           "disconnect", "", "", TRUE)

\* (mutant) a closeEvent that disconnects the camera before it stops the
\* camera thread
CloseEventDisconnectsFirst ==
  /\ gui.at = "loop" /\ ~gui.closed
  /\ IF pv.exists
     THEN /\ pv' = [pv EXCEPT !.running = FALSE]
          /\ gui' = [gui EXCEPT !.at = "stopping"]
          /\ camera' = Disconnect(camera)
     ELSE /\ pv' = pv
          /\ gui' = [gui EXCEPT !.closed = TRUE]
          /\ camera' = Disconnect(camera)
  /\ UNCHANGED <<screen, cd, review, settings, uploader, disk, round,
                 posted, up, jobs, form, preview, sd>>

\* MainWindow.closeEvent: camera_thread.stop() sets _running = False and
\* blocks in wait(); without a camera thread the camera is disconnected at
\* once.
CloseEvent ==
  /\ gui.at = "loop" /\ ~gui.closed
  /\ IF pv.exists
     THEN /\ pv' = [pv EXCEPT !.running = FALSE]
          /\ gui' = [gui EXCEPT !.at = "stopping"]
          /\ camera' = camera
     ELSE /\ pv' = pv
          /\ gui' = [gui EXCEPT !.closed = TRUE]
          /\ camera' = Disconnect(camera)
  /\ UNCHANGED <<screen, cd, review, settings, uploader, disk, round,
                 posted, up, jobs, form, preview, sd>>

\* QThread.wait() returns once run() has returned: stop() returns, then
\* closeEvent disconnects the camera and accepts the event.
StopReturn ==
  /\ gui.at = "stopping"
  /\ pv.pc = "done"
  /\ pv' = [pv EXCEPT !.stop_returned = TRUE]
  /\ camera' = Disconnect(camera)
  /\ gui' = [at |-> "loop", closed |-> TRUE]
  /\ UNCHANGED <<screen, cd, review, settings, uploader, disk, round,
                 posted, up, jobs, form, preview, sd>>

\* ---------------------------------------------------------- specifications
\* Settings(): the defaults of pibox5/config/settings.py
DefaultSettings == MakeSettings(3, 10, TRUE, FALSE, "", TRUE, 3)

\* No thread has called HttpUploader.shutdown.
NoShutdown ==
  [pc |-> "idle", calls |-> 0, wait |-> FALSE, returned |-> 0,
   before |-> 0, queued |-> {}, at_return |-> None]

\* MainWindow.__init__ with settings s and camera cam, after _setup_ui,
\* _setup_camera and _setup_uploader.
InitWindow(s, cam) ==
  /\ screen = SCREEN_IDLE
  /\ gui = [at |-> "loop", closed |-> FALSE]
  /\ cd = [value |-> 0, timer |-> FALSE, finish |-> 0]
  /\ review = [last_photo_data |-> None, photo |-> None, timer |-> FALSE]
  /\ settings = s
  /\ camera = cam
  /\ disk = [files |-> {}]
  /\ round = NewRound(0, 0)
  /\ pv = IF cam.connected THEN NewCameraThread(s.preview_fps)
          ELSE NoCameraThread
  /\ posted = <<>>
  /\ form = [base |-> s, values |-> s]
  /\ preview = [idle |-> None, countdown |-> None]
  /\ sd = NoShutdown

InitBoothUploader(s) ==
  /\ up = [u \in UploaderIds |->
            IF u = 1 /\ s.upload_enabled /\ s.upload_url # ""
            THEN NewUploader(s.upload_retry_count, FALSE, FALSE)
            ELSE NoUploader]
  /\ uploader = IF s.upload_enabled /\ s.upload_url # "" THEN Some(1)
                ELSE None
  /\ jobs = <<>>

\* --- SpecUpload: one HttpUploader, used directly
InitUpload ==
  /\ InitWindow(DefaultSettings, Connect(NewCamera("dummy"), TRUE))
  /\ uploader = None
  /\ jobs = <<>>
  /\ \E rc \in 0..MaxRetry, hs \in BOOLEAN, he \in BOOLEAN :
       up = [u \in UploaderIds |->
              IF u = 1 THEN NewUploader(rc, hs, he) ELSE NoUploader]

otherVars == <<screen, gui, cd, review, settings, uploader, camera, disk,
               round, pv, posted, form, preview, sd>>

\* A caller hands the next photo to upload_async of uploader 1.
Enqueue ==
  /\ Len(jobs) < MaxJobs
  /\ UploadAsync(1, Jpeg(Len(jobs) + 1), Len(jobs) + 1)
  /\ UNCHANGED otherVars

\* The steps of the worker thread of uploader u (HttpUploader._worker_loop),
\* a daemon thread that ends with the process.
WorkerLoopCheck ==
  \E u \in UploaderIds :
    gui.at # "aborted" /\ WorkerCheck(u) /\ UNCHANGED otherVars
WorkerLoopGet ==
  \E u \in UploaderIds :
    gui.at # "aborted" /\ WorkerGet(u) /\ UNCHANGED otherVars
WorkerLoopAttempt ==
  \E u \in UploaderIds, resp \in Responses :
    gui.at # "aborted" /\ WorkerAttempt(u, resp) /\ UNCHANGED otherVars
WorkerLoopSleep ==
  \E u \in UploaderIds :
    gui.at # "aborted" /\ WorkerSleep(u) /\ UNCHANGED otherVars
WorkerLoopResolve ==
  \E u \in UploaderIds, raises \in BOOLEAN :
    gui.at # "aborted" /\ WorkerResolve(u, raises) /\ UNCHANGED otherVars

NextUpload ==
  \/ Enqueue
  \/ WorkerLoopCheck
  \/ WorkerLoopGet
  \/ WorkerLoopAttempt
  \/ WorkerLoopSleep
  \/ WorkerLoopResolve

SpecUpload == InitUpload /\ [][NextUpload]_vars

\* The GUI thread's handlers, the saved settings drawn from S.
NextGui(S) ==
  \/ ClickPhotoButton
  \/ KeySpace
  \/ ClickSettingsButton
  \/ Tick
  \/ FinishCountdown
  \/ CaptureReturn
  \/ ReviewTimeout
  \/ \E e \in S : EditForm(e)
  \/ SettingsSaved
  \/ SettingsClosed

\* --- SpecShutdown: one HttpUploader, its callers and a thread calling
\* HttpUploader.shutdown, whose steps interleave with the worker's
callerVars == <<screen, gui, cd, review, settings, uploader, camera, disk,
                round, pv, posted, form, preview>>

\* shutdown(wait) is entered: the call is counted, and the jobs there are and
\* the ones still in the queue are noted (history, read by no step).
ShutdownCall(wait) ==
  /\ sd.pc = "idle"
  /\ sd.calls < MaxShutdowns
  /\ sd' = [sd EXCEPT !.pc = IF wait THEN "drain" ELSE "stop",
                      !.calls = @ + 1,
                      !.wait = wait,
                      !.before = Len(jobs),
                      !.queued = {up[1].queue[i].id :
                                    i \in 1..Len(up[1].queue)},
                      !.at_return = None]
  /\ UNCHANGED <<up, jobs>> /\ UNCHANGED callerVars

\* if wait: self._queue.join() returns once every put has had its task_done.
ShutdownDrain ==
  /\ sd.pc = "drain"
  /\ up[1].unfinished = 0
  /\ sd' = [sd EXCEPT !.pc = "stop"]
  /\ UNCHANGED <<up, jobs>> /\ UNCHANGED callerVars

\* self._running = False
ShutdownStop ==
  /\ sd.pc = "stop"
  /\ up' = [up EXCEPT ![1].running = FALSE]
  /\ sd' = [sd EXCEPT !.pc = "join"]
  /\ UNCHANGED jobs /\ UNCHANGED callerVars

\* self._worker_thread.join(timeout=5.0) returns when the worker has left
\* its loop, or after 5 s while the worker is in a request (up to the
\* request timeout) or in the sleep between two attempts; then shutdown
\* returns.
ShutdownJoin(timed_out) ==
  /\ sd.pc = "join"
  /\ IF timed_out THEN up[1].pc \in {"attempt", "sleep"}
     ELSE up[1].pc = "exited"
  /\ sd' = [sd EXCEPT !.pc = "idle",
                      !.returned = @ + 1,
                      !.at_return = Some(up[1].pc)]
  /\ UNCHANGED <<up, jobs>> /\ UNCHANGED callerVars

NextShutdown ==
  \/ NextUpload
  \/ \E wait \in BOOLEAN : ShutdownCall(wait)
  \/ ShutdownDrain
  \/ ShutdownStop
  \/ \E timed_out \in BOOLEAN : ShutdownJoin(timed_out)

SpecShutdown == InitUpload /\ [][NextShutdown]_vars

\* --- SpecShutdownFair: SpecShutdown with the worker thread and the thread
\* in shutdown scheduled: every request and every sleep ends, a join whose
\* condition holds returns.
SpecShutdownFair ==
  /\ InitUpload /\ [][NextShutdown]_vars
  /\ WF_vars(WorkerLoopCheck) /\ WF_vars(WorkerLoopGet)
  /\ WF_vars(WorkerLoopAttempt) /\ WF_vars(WorkerLoopSleep)
  /\ WF_vars(WorkerLoopResolve)
  /\ WF_vars(ShutdownDrain) /\ WF_vars(ShutdownStop)
  /\ WF_vars(\E timed_out \in BOOLEAN : ShutdownJoin(timed_out))

\* --- SpecSync: one HttpUploader, a caller of upload_async and a thread
\* calling upload_sync while the worker runs. No lock guards the counters:
\* "self._x += 1" reads the attribute and stores the sum as two steps, which
\* the steps of the other thread can come between (the worker's own
\* increments are taken as one step each).
\* upload_sync is entered; self._total_uploads is read
SyncLoadTotal ==
  /\ up[1].sync.pc = "idle"
  /\ up[1].sync.calls < MaxSyncs
  /\ up' = [up EXCEPT ![1].sync.pc = "store_total",
                      ![1].sync.loaded = up[1].total,
                      ![1].sync.calls = @ + 1]
  /\ UNCHANGED jobs /\ UNCHANGED otherVars

\* self._total_uploads is assigned the sum
SyncStoreTotal ==
  /\ up[1].sync.pc = "store_total"
  /\ up' = [up EXCEPT ![1].sync.pc = "upload",
                      ![1].total = up[1].sync.loaded + 1]
  /\ UNCHANGED jobs /\ UNCHANGED otherVars

\* result = self._upload_with_retry(task), which writes no field of the
\* uploader; the counter to increment is read
SyncUpload(resps) ==
  /\ up[1].sync.pc = "upload"
  /\ LET task == UploadTask(0, Jpeg(0), 0)
         done == UploadWithRetry(task, up[1].retry_count, resps, 0, None)
         success == done.result.success
     IN up' = [up EXCEPT ![1].sync.pc = "store_count",
                         ![1].sync.success = success,
                         ![1].sync.result = Some(done.result),
                         ![1].sync.attempts = done.attempts,
                         ![1].sync.loaded = IF success THEN up[1].successful
                                            ELSE up[1].failed]
  /\ UNCHANGED jobs /\ UNCHANGED otherVars

\* self._successful_uploads or self._failed_uploads is assigned the sum;
\* upload_sync returns
SyncStoreCount ==
  /\ up[1].sync.pc = "store_count"
  /\ up' = [up EXCEPT
              ![1].sync.pc = "idle",
              ![1].successful = IF up[1].sync.success
                                THEN up[1].sync.loaded + 1 ELSE @,
              ![1].failed = IF up[1].sync.success
                            THEN @ ELSE up[1].sync.loaded + 1]
  /\ UNCHANGED jobs /\ UNCHANGED otherVars

NextSync ==
  \/ NextUpload
  \/ SyncLoadTotal
  \/ SyncStoreTotal
  \/ \E resps \in ResponseSeqs(RetryAttempts(up[1].retry_count)) :
       SyncUpload(resps)
  \/ SyncStoreCount

SpecSync == InitUpload /\ [][NextSync]_vars

\* --- SpecSyncRetry: one HttpUploader without callbacks, upload_async and
\* upload_sync called on it, the endpoint answering the successive requests
\* of every job by the same script
InitSyncRetry ==
  /\ InitWindow(DefaultSettings, Connect(NewCamera("dummy"), TRUE))
  /\ uploader = None
  /\ jobs = <<>>
  /\ \E rc \in 0..MaxRetry :
       \E script \in ResponseSeqs(RetryAttempts(rc)) :
         up = [u \in UploaderIds |->
                IF u = 1
                THEN [NewUploader(rc, FALSE, FALSE) EXCEPT
                        !.sync.script = script]
                ELSE NoUploader]

\* A caller hands a photo to upload_async.
ScriptedEnqueue ==
  /\ Len(jobs) < MaxScriptedJobs
  /\ UploadAsync(1, Jpeg(Len(jobs) + 1), Len(jobs) + 1)
  /\ UNCHANGED otherVars

\* The worker's request is answered as the script says.
ScriptedAttempt ==
  /\ up[1].pc = "attempt"
  /\ WorkerAttempt(1, up[1].sync.script[up[1].attempt + 1])
  /\ UNCHANGED otherVars

\* The requests of upload_sync are answered as the script says.
ScriptedSyncUpload == SyncUpload(up[1].sync.script)

NextSyncRetry ==
  \/ ScriptedEnqueue
  \/ WorkerLoopCheck
  \/ WorkerLoopGet
  \/ ScriptedAttempt
  \/ WorkerLoopSleep
  \/ WorkerLoopResolve
  \/ SyncLoadTotal
  \/ SyncStoreTotal
  \/ ScriptedSyncUpload
  \/ SyncStoreCount

SpecSyncRetry == InitSyncRetry /\ [][NextSyncRetry]_vars

\* --- SpecBooth: the GUI thread, the countdown's length varying
TimingSettings ==
  {MakeSettings(n, 10, TRUE, FALSE, "", TRUE, 3) : n \in 1..MaxCountdown}

InitBooth ==
  \E s \in TimingSettings, cam \in Cameras :
    InitWindow(s, cam) /\ InitBoothUploader(s)

NextBooth == NextGui(TimingSettings)

SpecBooth == InitBooth /\ [][NextBooth]_vars

\* --- SpecBoothFair: SpecBooth with the event loop serving its timers: a
\* started QTimer (the countdown's 1 s tick, the 300 ms single shot before the
\* capture, the review's single shot) fires, and the capture call returns.
SpecBoothFair ==
  /\ InitBooth /\ [][NextBooth]_vars
  /\ WF_vars(Tick) /\ WF_vars(FinishCountdown)
  /\ WF_vars(CaptureReturn) /\ WF_vars(ReviewTimeout)

\* --- SpecCapture: the GUI thread, the storage and upload settings varying
UploadUrls == {"", "http://host/upload"}

CaptureSettings ==
  {MakeSettings(1, 10, sl, en, url, oc, 3) :
     sl \in BOOLEAN, en \in BOOLEAN, url \in UploadUrls, oc \in BOOLEAN}

InitCapture ==
  \E s \in CaptureSettings, cam \in Cameras :
    InitWindow(s, cam) /\ InitBoothUploader(s)

\* The values the form is edited to: storage and auto-upload toggled.
CaptureEdits ==
  {MakeSettings(1, 10, sl, TRUE, "http://host/upload", oc, 3) :
     sl \in BOOLEAN, oc \in BOOLEAN}

NextCapture == NextGui(CaptureEdits)

SpecCapture == InitCapture /\ [][NextCapture]_vars

\* --- SpecStorage: the GUI thread, saving locally, the file name pattern
\* of the configuration file varying
FilenamePatterns ==
  {DefaultPattern,
   <<Lit("photo.jpg")>>,
   <<Lit("{timestamp}"), Lit("_"), Lit("{timestamp}"), Lit(".jpg")>>}

StorageSettings ==
  {[MakeSettings(1, 10, TRUE, en, "http://host/upload", TRUE, 3)
      EXCEPT !.filename_pattern = pattern] :
     en \in BOOLEAN, pattern \in FilenamePatterns}

InitStorage ==
  \E s \in StorageSettings, cam \in Cameras :
    InitWindow(s, cam) /\ InitBoothUploader(s)

\* The form has no widget for the pattern: an edit keeps the one loaded.
StorageEdits ==
  {[MakeSettings(1, 10, sl, TRUE, "http://host/upload", TRUE, 3)
      EXCEPT !.filename_pattern = form.base.filename_pattern] :
     sl \in BOOLEAN}

NextStorage == NextGui(StorageEdits)

SpecStorage == InitStorage /\ [][NextStorage]_vars

\* --- SpecPreview: the GUI thread and the CameraThread
FpsValues == {5, 10}

PreviewSettings ==
  {MakeSettings(1, fps, FALSE, FALSE, "", TRUE, 3) : fps \in FpsValues}

InitPreview ==
  \E s \in PreviewSettings, cam \in Cameras :
    InitWindow(s, cam) /\ InitBoothUploader(s)

NextPreview ==
  \/ NextGui(PreviewSettings)
  \/ PvRun
  \/ PvCheck
  \/ PvFrame
  \/ PvWake
  \/ DeliverFrame
  \/ CloseEvent
  \/ StopReturn

SpecPreview == InitPreview /\ [][NextPreview]_vars

\* --- SpecPreviewFair: SpecPreview with the camera thread scheduled (a
\* started thread runs, a call on the camera returns, msleep ends) and
\* QThread.wait() returning once run() has returned.
SpecPreviewFair ==
  /\ InitPreview /\ [][NextPreview]_vars
  /\ WF_vars(PvRun) /\ WF_vars(PvCheck) /\ WF_vars(PvFrame)
  /\ WF_vars(PvWake) /\ WF_vars(StopReturn)

\* --- SpecClose: the GUI thread taking photos and closing the window, the
\* CameraThread and the uploader's worker
CloseSettings ==
  {MakeSettings(1, 10, FALSE, TRUE, "http://host/upload", TRUE, 1)}

\* A camera that connected, with its thread, and one that did not.
CloseCameras ==
  {Connect(NewCamera("dummy"), TRUE), Connect(NewCamera("gphoto2"), FALSE)}

InitClose ==
  \E s \in CloseSettings, cam \in CloseCameras :
    InitWindow(s, cam) /\ InitBoothUploader(s)

NextClose ==
  \/ ClickPhotoButton
  \/ Tick
  \/ FinishCountdown
  \/ CaptureReturn
  \/ ReviewTimeout
  \/ PvRun
  \/ PvCheck
  \/ PvFrame
  \/ PvWake
  \/ DeliverFrame
  \/ CloseEvent
  \/ StopReturn
  \/ WorkerLoopCheck
  \/ WorkerLoopGet
  \/ WorkerLoopAttempt
  \/ WorkerLoopSleep
  \/ WorkerLoopResolve

SpecClose == InitClose /\ [][NextClose]_vars

\* --- SpecReconfig: the GUI thread and the uploader's worker, the camera
\* options of the settings form varying
\* Items of the settings screen's iso_combo the form is set to.
IsoChoices == {"100", "800"}

ReconfigSettings ==
  {MakeSettings(1, 10, FALSE, TRUE, "http://host/upload", TRUE, 1)}

ReconfigEdits ==
  {[s EXCEPT !.camera_iso = iso] : s \in ReconfigSettings, iso \in IsoChoices}

InitReconfig ==
  \E s \in ReconfigSettings, cam \in Cameras :
    InitWindow(s, cam) /\ InitBoothUploader(s)

NextReconfig ==
  \/ NextGui(ReconfigEdits)
  \/ WorkerLoopCheck
  \/ WorkerLoopGet
  \/ WorkerLoopAttempt
  \/ WorkerLoopSleep
  \/ WorkerLoopResolve

SpecReconfig == InitReconfig /\ [][NextReconfig]_vars

\* --- SpecCamera: one camera, its methods called directly
cameraOther == <<screen, gui, cd, review, settings, uploader, disk, round,
                 pv, posted, form, preview, sd, up, jobs>>

\* Names and values handed to set_config: an option of both cameras, a
\* read-only widget of the device, a name neither knows; a value among the
\* choices of "iso" and one outside them.
ConfigNames == {"iso", "serialnumber", "zoom"}
ConfigValues == {"100", "999"}

InitCamera ==
  \E kind \in {"dummy", "gphoto2"} :
    InitWindow(DefaultSettings, NewCamera(kind))
      /\ InitBoothUploader(DefaultSettings)

CameraConnect ==
  /\ camera.calls < MaxCameraCalls
  /\ \E init_ok \in BOOLEAN : camera' = Connect(camera, init_ok)
  /\ UNCHANGED cameraOther

CameraDisconnect ==
  /\ camera.calls < MaxCameraCalls
  /\ camera' = Disconnect(camera)
  /\ UNCHANGED cameraOther

CameraSetConfig ==
  /\ camera.calls < MaxCameraCalls
  /\ \E name \in ConfigNames, value \in ConfigValues, accepted \in BOOLEAN :
       camera' = SetConfig(camera, name, value, accepted)
  /\ UNCHANGED cameraOther

CameraStartPreview ==
  /\ camera.calls < MaxCameraCalls
  /\ camera' = StartPreview(camera)
  /\ UNCHANGED cameraOther

\* get_preview_frame is called; ret.result tells whether a frame came back.
CameraGetPreviewFrame ==
  /\ camera.calls < MaxCameraCalls
  /\ \E frame \in GetPreviewFrame(camera) :
       camera' = Returned(camera, "get_preview_frame", "", "", frame # None)
  /\ UNCHANGED cameraOther

CameraCapturePhoto ==
  /\ camera.calls < MaxCameraCalls
  /\ \E captured \in CapturePhoto(camera, camera.calls + 1) :
       camera' = Captured(camera, captured)
  /\ UNCHANGED cameraOther

NextCamera ==
  \/ CameraConnect
  \/ CameraDisconnect
  \/ CameraSetConfig
  \/ CameraStartPreview
  \/ CameraGetPreviewFrame
  \/ CameraCapturePhoto

SpecCamera == InitCamera /\ [][NextCamera]_vars

\* ================================================================== claims
JobIds == DOMAIN jobs

\* The result _upload_with_retry has computed for job j, if any: the one the
\* worker is about to count, or the outcome already delivered.
ResultOf(j) ==
  LET w == up[jobs[j].uploader] IN
  IF jobs[j].outcome # None THEN jobs[j].outcome
  ELSE IF w.pc = "resolve" /\ w.task # None /\ w.task[1].id = j THEN w.result
  ELSE None

\* The cause _do_upload reports for each kind of failed request.
ExpectedCause(resp) ==
  CASE resp = "http_error" -> Some(<<"HTTP 500">>)
    [] resp = "timeout" -> Some(<<"Request timeout">>)
    [] resp = "connection_error" -> Some(<<"Connection error">>)
    [] resp = "exception" -> Some(<<"Upload error">>)

\* C1: with retry_count = N and every attempt failing, exactly N+1 attempts
\* are made (never more), the job's result is then a failure, and a failure
\* result's message reports N+1 attempts and the last attempt's cause.
C1_RetryBound ==
  \A j \in JobIds :
    LET e == jobs[j]
        N == up[e.uploader].retry_count
        r == ResultOf(j)
    IN /\ e.attempts <= N + 1
       /\ (e.oks = 0 /\ e.attempts = N + 1) => (r # None /\ ~r[1].success)
       /\ (r # None /\ ~r[1].success) =>
            /\ e.oks = 0
            /\ e.attempts = N + 1
            /\ e.sleeps = N
            /\ r[1].error_message =
                 Some(<<"Upload failed after", N + 1, "attempts",
                        ExpectedCause(e.last_resp[1])>>)

C1_Witness ==
  \E j \in JobIds :
    /\ up[jobs[j].uploader].retry_count = MaxRetry
    /\ jobs[j].outcome # None /\ ~jobs[j].outcome[1].success
    /\ jobs[j].attempts = MaxRetry + 1
    /\ jobs[j].last_resp = Some("timeout")

\* C2: once an attempt of a job succeeds, the job's result is that success
\* and neither another attempt nor a retry delay follows: the k-th attempt
\* being the first to succeed, exactly k attempts and k-1 delays were made,
\* with 1 <= k <= retry_count + 1.
C2_SuccessStops ==
  \A j \in JobIds :
    LET e == jobs[j]
        r == ResultOf(j)
    IN /\ e.oks <= 1
       /\ e.oks = 1 =>
            /\ e.last_resp = Some("ok")
            /\ e.sleeps = e.attempts - 1
            /\ e.attempts <= up[e.uploader].retry_count + 1
            /\ r # None /\ r[1].success
       /\ (r # None /\ r[1].success) => e.oks = 1

\* An endpoint that failed once, then succeeded: 2 attempts, success.
C2_Witness ==
  \E j \in JobIds :
    /\ jobs[j].outcome # None /\ jobs[j].outcome[1].success
    /\ jobs[j].attempts = 2 /\ jobs[j].sleeps = 1

\* Job j has left the queue of its uploader.
Dequeued(j) ==
  \A i \in DOMAIN up[jobs[j].uploader].queue :
    up[jobs[j].uploader].queue[i].id # j

\* C3: jobs of one uploader are processed in submission order (a job leaves
\* the queue, and so is attempted, only when every job enqueued before it on
\* that uploader has its outcome), and upload_async is enabled whatever the
\* worker is doing.
C3_Fifo ==
  /\ \A a \in JobIds, b \in JobIds :
       (a < b /\ jobs[a].uploader = jobs[b].uploader /\ Dequeued(b))
         => jobs[a].outcome # None
  /\ \A j \in JobIds : jobs[j].attempts > 0 => Dequeued(j)
  /\ Len(jobs) < MaxJobs => ENABLED Enqueue

\* Job 2 was enqueued and is being attempted after job 1 got its outcome.
C3_Witness ==
  \E a \in JobIds, b \in JobIds :
    /\ a < b /\ jobs[a].uploader = jobs[b].uploader
    /\ jobs[b].attempts > 0
    /\ jobs[a].outcome # None

\* The jobs of uploader u that have their outcome, by success flag.
Resolved(u, success) ==
  {j \in JobIds : /\ jobs[j].uploader = u
                  /\ jobs[j].outcome # None
                  /\ jobs[j].outcome[1].success = success}

\* C4 as stated: every resolved job had exactly one of the two callbacks
\* invoked, once, and one counter incremented.
C4_Original ==
  \A j \in JobIds :
    jobs[j].outcome # None =>
      /\ jobs[j].on_success_calls + jobs[j].on_error_calls = 1
      /\ jobs[j].counted = 1

\* C4 (amended): every job the worker has resolved was resolved once: one
\* counter went up by one for it (successful for a success, failed for a
\* failure), the callback for its outcome was invoked exactly once if one is
\* registered and not at all if none is, and the other callback never; a job
\* without outcome has been counted and reported to no callback.
C4_OneOutcome ==
  /\ \A j \in JobIds :
       LET e == jobs[j]
           w == up[e.uploader]
       IN IF e.outcome = None
          THEN e.counted = 0 /\ e.on_success_calls = 0 /\ e.on_error_calls = 0
          ELSE /\ e.counted = 1
               /\ e.on_success_calls =
                    (IF e.outcome[1].success /\ w.has_on_success
                     THEN 1 ELSE 0)
               /\ e.on_error_calls =
                    (IF ~e.outcome[1].success /\ w.has_on_error
                     THEN 1 ELSE 0)
  /\ \A u \in UploaderIds :
       /\ up[u].successful = Cardinality(Resolved(u, TRUE))
       /\ up[u].failed = Cardinality(Resolved(u, FALSE))

\* A success reported to on_success and a failure reported to on_error.
C4_Witness ==
  \E a \in JobIds, b \in JobIds :
    /\ jobs[a].outcome # None /\ jobs[a].on_success_calls = 1
    /\ jobs[b].outcome # None /\ jobs[b].on_error_calls = 1
    /\ up[1].successful = 1 /\ up[1].failed = 1

\* What a press of the photo button or of Space may not touch when ignored.
BoothCore == <<screen, gui, cd, review, settings, uploader, camera, disk,
               up, jobs, round.sessions, round.ticks, round.captures>>

C9_Countdown ==
  /\ [](round.sessions > 0 => round.duration \in 1..MaxCountdown)
  /\ [][(screen = SCREEN_IDLE /\ screen' = SCREEN_COUNTDOWN) =>
          /\ round'.duration = settings.countdown_seconds
          /\ cd'.value = round'.duration /\ cd'.timer
          /\ round'.ticks = 0 /\ round'.captures = 0]_vars
  /\ [](cd.timer =>
          /\ screen = SCREEN_COUNTDOWN
          /\ cd.value = round.duration - round.ticks
          /\ cd.value >= 1
          /\ round.captures = 0 /\ cd.finish = 0)
  /\ []((round.sessions > 0 /\ ~cd.timer) =>
          /\ round.ticks = round.duration
          /\ cd.value = 0
          /\ round.captures = 1 - cd.finish)
  /\ [][(gui.at = "capturing" /\ gui'.at = "loop" /\ camera.kind = "dummy") =>
          /\ round'.result # None /\ round'.result[1].success
          /\ round'.result[1].image_data = Some(Jpeg(round.sessions))
          /\ screen' = SCREEN_REVIEW
          /\ review'.photo = round'.result[1].image_data
          /\ review'.timer]_vars

C9_Witness ==
  /\ round.duration = MaxCountdown
  /\ round.ticks = MaxCountdown
  /\ round.captures = 1
  /\ camera.kind = "dummy"
  /\ screen = SCREEN_REVIEW
  /\ review.photo = Some(Jpeg(round.sessions))

\* capture_photo returns success with image bytes in this step.
CaptureSucceeds ==
  /\ gui.at = "capturing" /\ gui'.at = "loop"
  /\ round'.result # None
  /\ round'.result[1].success /\ Truthy(round'.result[1].image_data)

\* The upload job _upload_photo enqueues for the photo of this round.
PhotoTask == UploadTask(Len(jobs) + 1, round'.result[1].image_data[1],
                        round.sessions)

\* The file _save_photo_locally writes for the photo of this round.
PhotoFile == [name |-> PhotoFileName(settings.filename_pattern,
                                      round.sessions),
              data |-> round'.result[1].image_data[1]]

\* The step shows the photo in Review and starts the review timer.
EntersReview ==
  /\ screen' = SCREEN_REVIEW
  /\ review'.timer
  /\ review'.photo = round'.result[1].image_data

C6_NoConcurrentCameraCalls ==
  ~(gui.at = "capturing" /\ pv.pc = "acquire")

\* C7: once CameraThread.stop() has returned, no frame is delivered to
\* _on_preview_frame any more, frames emitted before the stop included.
C7_NoFrameAfterStop ==
  [][pv.stop_returned => posted' = posted]_vars

\* C8: settings-saved gives the running preview loop the saved rate without
\* ending it, and the wait of every cycle is the interval of the fps the
\* thread had when the cycle started, so that the new rate holds from the
\* next cycle on.
C8_FpsNextCycle ==
  /\ [][(settings' # settings /\ pv.exists) =>
          (pv'.fps = settings'.preview_fps /\ gui'.at # "aborted")]_vars
  /\ [](pv.pc = "sleep" => pv.interval_ms = IntervalMs(pv.cycle_fps))

\* capture_photo returns a failure in this step.
CaptureFails ==
  /\ gui.at = "capturing" /\ gui'.at = "loop"
  /\ round'.result # None
  /\ ~round'.result[1].success

\* C11: when capture_photo returns a failure the booth goes from Countdown
\* to Idle; the review screen, its timer, the disk and the upload queue are
\* untouched; and no countdown or capture is started again by the booth: the
\* round keeps its single capture_photo call and no timer of the countdown
\* is left running.
C11_CaptureFailure ==
  /\ [][CaptureFails =>
          /\ screen = SCREEN_COUNTDOWN /\ screen' = SCREEN_IDLE
          /\ review' = review /\ ~review'.timer
          /\ disk' = disk
          /\ jobs' = jobs /\ up' = up
          /\ cd' = cd
          /\ round'.captures = round.captures]_vars
  /\ []((round.result # None /\ ~round.result[1].success) =>
          /\ round.captures = 1
          /\ ~cd.timer /\ cd.finish = 0
          /\ ~review.timer
          /\ screen \in {SCREEN_IDLE, SCREEN_SETTINGS})

\* The camera refused the capture and the booth is back in Idle.
C11_Witness ==
  /\ round.result # None /\ ~round.result[1].success
  /\ round.result[1].error_message = Some("Capture failed")
  /\ screen = SCREEN_IDLE
  /\ round.captures = 1

\* A queued frame_ready emission is delivered in this step.
FrameDelivered == Len(posted') = Len(posted) - 1

\* C13: the delivery of a preview frame changes nothing of the booth but the
\* preview it is shown in: the idle screen's with blur on when the screen is
\* Idle, the countdown screen's with blur off when it is Countdown, and none
\* when it is Review or Settings.
C13_FrameForwarding ==
  [][FrameDelivered =>
       /\ UNCHANGED <<screen, gui, cd, review, settings, uploader, camera,
                      disk, round, pv, up, jobs, form, sd>>
       /\ screen = SCREEN_IDLE =>
            preview' = [preview EXCEPT
                          !.idle = Some([frame |-> Head(posted),
                                         blur |-> TRUE])]
       /\ screen = SCREEN_COUNTDOWN =>
            preview' = [preview EXCEPT
                          !.countdown = Some([frame |-> Head(posted),
                                              blur |-> FALSE])]
       /\ screen \in {SCREEN_REVIEW, SCREEN_SETTINGS} =>
            preview' = preview]_vars

\* Frames were shown on the idle and on the countdown screen, and one more
\* is about to be delivered while the review screen is up.
C13_Witness ==
  /\ preview.idle = Some([frame |-> "frame", blur |-> TRUE])
  /\ preview.countdown = Some([frame |-> "frame", blur |-> FALSE])
  /\ screen = SCREEN_REVIEW
  /\ posted # <<>> /\ gui.at = "loop"

\* C14: leaving the settings screen by its cancel button puts the booth in
\* Idle and changes neither the settings, the preview thread and its fps,
\* the camera, nor the uploader with its queue and counters; the edited
\* values are not applied, and the next time the settings screen is shown
\* its widgets are loaded from the screen's settings again.
C14_SettingsCancelled ==
  /\ [][(screen = SCREEN_SETTINGS /\ screen' # SCREEN_SETTINGS) =>
          /\ screen' = SCREEN_IDLE
          /\ UNCHANGED <<settings, pv, camera, uploader, up, jobs>>
          /\ UNCHANGED <<gui, cd, review, disk, round, posted, preview>>]_vars
  /\ [][(screen = SCREEN_IDLE /\ screen' = SCREEN_SETTINGS) =>
          (form'.values = form.base /\ form'.base = form.base)]_vars

\* Edits were made and cancelled: the booth is in Idle with the settings it
\* started with, the uploader still holding a queued job.
C14_Witness ==
  /\ screen = SCREEN_IDLE
  /\ form.values # form.base
  /\ settings = form.base
  /\ uploader # None /\ up[1].queue # <<>>

\* C15: settings-saved puts the booth in Idle (from where the next countdown,
\* review and upload use the saved configuration).
C15_SavedReturnsToIdle ==
  [][SettingsSaved => (screen' = SCREEN_IDLE /\ gui'.at = "loop")]_vars

\* C12: with the timers served, the countdown screen is always followed by
\* the review screen or the idle screen, and the review screen is always
\* followed by the idle screen.
C12_ScreensProgress ==
  /\ (screen = SCREEN_COUNTDOWN) ~> (screen \in {SCREEN_REVIEW, SCREEN_IDLE})
  /\ (screen = SCREEN_REVIEW) ~> (screen = SCREEN_IDLE)

\* A round went through the countdown and the review and is back in Idle.
C12_Witness ==
  /\ screen = SCREEN_IDLE
  /\ round.sessions > 0 /\ round.ticks = round.duration
  /\ round.result # None /\ round.result[1].success
  /\ ~review.timer /\ review.photo # None

\* C16: the process never ends on a save of the settings while a job that
\* was enqueued before the save is still unresolved, so that every such job
\* reaches its outcome.
C16_JobsSurviveSave ==
  gui.at = "aborted" => \A j \in JobIds : jobs[j].outcome # None

\* C17: after a save of the settings the camera's iso option holds the value
\* of the saved settings.
C17_CameraOptionsApplied ==
  [][(settings' # settings) => camera'.options["iso"].value = settings'.camera_iso]_vars

\* C18: when shutdown(wait=True) returns, every job enqueued before the call
\* has its outcome, the queue is empty and no job is in flight, and the
\* worker has left its loop.
C18_DrainThenTerminated ==
  (sd.at_return # None /\ sd.wait) =>
    /\ \A j \in 1..sd.before : jobs[j].outcome # None
    /\ sd.at_return[1] = "exited"

\* C19: no job that was still in the queue when shutdown(wait=False) was
\* called ever gets an upload attempt.
C19_QueuedNeverAttempted ==
  (sd.calls > 0 /\ ~sd.wait) =>
    \A j \in sd.queued : jobs[j].attempts = 0 /\ ~Dequeued(j)

\* C20: a second call of shutdown never blocks.
C20_SecondCallReturns ==
  ~(sd.calls = 2 /\ sd.pc = "drain"
      /\ up[1].pc = "exited" /\ up[1].unfinished > 0)

\* The state of a camera object (and of the device behind it) apart from
\* the history of the calls made on it.
CameraState(cam) ==
  [connected |-> cam.connected, preview_active |-> cam.preview_active,
   start_time |-> cam.start_time, session |-> cam.session,
   options |-> cam.options]

\* The call op has just been made on the camera.
CameraCalled(op) ==
  /\ camera'.calls = camera.calls + 1
  /\ camera'.ret[1].op = op

\* C21: connect() on a connected camera returns true and leaves the camera's
\* state as it was; disconnect() on a disconnected camera changes nothing.
C21_ConnectIdempotent ==
  /\ [][(CameraCalled("connect") /\ camera.connected) =>
          (camera'.ret[1].result /\ CameraState(camera') = CameraState(camera))
       ]_vars
  /\ [][(CameraCalled("disconnect") /\ ~camera.connected) =>
          CameraState(camera') = CameraState(camera)]_vars

\* C22: set_config with a value that is not among the option's choices
\* returns false and leaves every option's value unchanged.
C22_RejectsOutsideValue ==
  [][(/\ CameraCalled("set_config")
      /\ camera'.ret[1].name \in DOMAIN camera.options
      /\ camera'.ret[1].value
           \notin camera.options[camera'.ret[1].name].choices) =>
       (~camera'.ret[1].result /\ camera'.options = camera.options)]_vars

\* C30: the value of every camera option that has choices is one of them.
C30_ValueAmongChoices ==
  \A name \in DOMAIN camera.options :
    camera.options[name].choices # {} =>
      camera.options[name].value \in camera.options[name].choices

\* C23 as stated: after a successful capture with save_locally on, the file
\* named by the pattern holds the captured bytes.
C23_Original ==
  [][(CaptureSucceeds /\ settings.save_locally) => PhotoFile \in disk'.files
    ]_vars

\* C23: after a successful capture with save_locally on, unless the save
\* raised, exactly one file bears the name made from filename_pattern by
\* putting the time stamp for every "{timestamp}", and it holds the captured
\* bytes; a save that raised leaves that file absent or incomplete; files of
\* other names are as they were.
C23_SavedFile ==
  [][(CaptureSucceeds /\ settings.save_locally) =>
       LET name == [i \in DOMAIN settings.filename_pattern |->
                      IF settings.filename_pattern[i] = Lit("{timestamp}")
                      THEN Strftime(round.sessions)
                      ELSE settings.filename_pattern[i]]
           bytes == round'.result[1].image_data[1]
           named == {f \in disk'.files : f.name = name}
       IN /\ round'.save = "ok" => named = {[name |-> name, data |-> bytes]}
          /\ round'.save = "partial" => named = {[name |-> name, data |-> <<>>]}
          /\ round'.save = "failed" =>
               named = {f \in disk.files : f.name = name}
          /\ {f \in disk'.files : f.name # name}
               = {f \in disk.files : f.name # name}]_vars

\* A second photo was saved under a name with two time stamps in it, next to
\* the first one.
C23_Witness ==
  /\ screen = SCREEN_REVIEW /\ round.save = "ok" /\ round.sessions = 2
  /\ Len(settings.filename_pattern) = 4
  /\ [name |-> <<Strftime(2), Lit("_"), Strftime(2), Lit(".jpg")>>,
      data |-> Jpeg(2)] \in disk.files
  /\ Cardinality(disk.files) = 2

\* C24: when the local save raises, the booth still shows the photo in
\* Review with the review timer started and, with upload_on_capture on and
\* an uploader present, still hands the photo to the uploader.
C24_SaveFailureTolerated ==
  [][(CaptureSucceeds /\ round'.save \in {"failed", "partial"}) =>
       /\ EntersReview
       /\ IF settings.upload_on_capture /\ uploader # None
          THEN /\ Len(jobs') = Len(jobs) + 1
               /\ LET q == up'[uploader[1]].queue
                  IN q[Len(q)].image_data = round'.result[1].image_data[1]
          ELSE jobs' = jobs /\ up' = up]_vars

\* The save failed; the photo is in Review and queued for upload.
C24_Witness ==
  /\ screen = SCREEN_REVIEW /\ review.timer
  /\ round.save \in {"failed", "partial"}
  /\ round.enqueued = 1
  /\ review.photo = round.result[1].image_data

\* C25: the timers that drive the booth are active only in the state that
\* started them: a countdown tick and the delayed _finish_countdown are
\* pending and handled only on the countdown screen, the review timer only
\* on the review screen, whose expiry leaves it.
C25_TimersInOwnState ==
  /\ []((cd.timer \/ cd.finish > 0) => screen = SCREEN_COUNTDOWN)
  /\ [](cd.finish <= 1 /\ ~(cd.timer /\ cd.finish > 0))
  /\ [](review.timer => screen = SCREEN_REVIEW)
  /\ [][(round'.sessions = round.sessions /\ round'.ticks # round.ticks) =>
          (screen = SCREEN_COUNTDOWN /\ screen' = SCREEN_COUNTDOWN)]_vars
  /\ [][(round'.sessions = round.sessions
           /\ round'.captures # round.captures) =>
          screen = SCREEN_COUNTDOWN]_vars
  /\ [][(review.timer /\ ~review'.timer) =>
          (screen = SCREEN_REVIEW /\ screen' = SCREEN_IDLE)]_vars

\* The second countdown is ticking after the first round's review expired.
C25_Witness ==
  /\ screen = SCREEN_COUNTDOWN /\ cd.timer
  /\ round.sessions = 2 /\ round.ticks >= 1
  /\ review.photo # None /\ ~review.timer

C27_AttemptCount ==
  \A u \in UploaderIds :
    up[u].task # None =>
      up[u].task[1].retry_count = jobs[up[u].task[1].id].attempts

\* C28: the counters get_stats reports never decrease.
C28_CountersMonotonic ==
  [][\A u \in UploaderIds :
       /\ up'[u].total >= up[u].total
       /\ up'[u].successful >= up[u].successful
       /\ up'[u].failed >= up[u].failed]_vars

\* get_preview_frame returns None to the preview loop in this step.
NoneReturned == pv.pc = "acquire" /\ pv'.pc = "sleep" /\ pv'.nones > 0

\* C29: a cycle in which get_preview_frame returns None emits no frame and
\* leaves the loop running with the interval it computed at its start;
\* after the wait the loop tests _running and acquires again, however many
\* cycles in a row gave None.
C29_NoneKeepsCadence ==
  /\ [][NoneReturned =>
          /\ posted' = posted
          /\ pv'.running = pv.running
          /\ pv'.interval_ms = pv.interval_ms
          /\ pv'.interval_ms = IntervalMs(pv.cycle_fps)]_vars
  /\ [][(pv.pc = "sleep" /\ pv'.pc # "sleep") =>
          (pv'.pc = "check" /\ pv'.interval_ms = pv.interval_ms
             /\ pv'.nones = pv.nones)]_vars
  /\ [][(pv.pc = "check" /\ pv'.pc # "check" /\ pv.running) =>
          (pv'.pc = "acquire" /\ pv'.interval_ms = pv.interval_ms)]_vars
  /\ [](pv.nones > 0 /\ pv.pc \in {"check", "acquire"} /\ pv.running
          => ENABLED (PvCheck \/ PvFrame) \/ gui.at = "aborted")

\* MaxNones cycles in a row gave None and the loop is waiting its interval
\* again, still running.
C29_Witness ==
  /\ pv.nones = MaxNones /\ pv.pc = "sleep" /\ pv.running
  /\ pv.interval_ms = IntervalMs(pv.fps)

\* C31: a CaptureResult returned by capture_photo has image_data and no
\* error_message when success is true, error_message and no image_data
\* when it is false; on a camera that is not connected it is the failure.
C31_OneOfBytesAndError ==
  [][CameraCalled("capture_photo") =>
       LET r == camera'.ret[1].out[1] IN
         /\ (r.image_data # None) # (r.error_message # None)
         /\ r.success = (r.image_data # None)
         /\ ~camera.connected => ~r.success]_vars

\* capture_photo has returned a failure on a camera that is not connected
\* (after a success on the connected one, for a camera with a session).
C31_Witness ==
  /\ camera.ret # None /\ camera.ret[1].op = "capture_photo"
  /\ ~camera.connected /\ ~camera.ret[1].result
  /\ camera.ret[1].out[1].error_message = Some("Camera not connected")
  /\ camera.calls > 2

\* C32: disconnect() leaves the camera not connected and its preview not
\* active; while the camera is not connected get_preview_frame returns None
\* and capture_photo a failure, and only a connect() that returns true
\* connects it again.
C32_NothingAfterDisconnect ==
  /\ [][CameraCalled("disconnect") =>
          (~camera'.connected /\ ~camera'.preview_active)]_vars
  /\ [][(~camera.connected /\ (CameraCalled("get_preview_frame")
                                 \/ CameraCalled("capture_photo"))) =>
          (~camera'.ret[1].result /\ ~camera'.connected)]_vars
  /\ [][(~camera.connected /\ camera'.connected) =>
          (CameraCalled("connect") /\ camera'.ret[1].result)]_vars

\* After a disconnect of a connected camera in preview, a frame was asked
\* for and none came back.
C32_Witness ==
  /\ camera.ret # None /\ camera.ret[1].op = "get_preview_frame"
  /\ ~camera.ret[1].result /\ ~camera.connected /\ ~camera.preview_active
  /\ camera.opened > 0 /\ camera.session = None

\* What only the GUI thread's handlers write.
GuiThreadVars == <<screen, gui, cd, review, settings, uploader, disk, round,
                   form>>

\* C33: a step of the GUI thread makes no upload attempt and waits for no
\* retry delay: it leaves every job there is as it was and at most appends
\* a task that has not been attempted to the queue; attempts and retry
\* delays are steps of the worker, which leave the GUI thread where it is.
C33_UploadsOffGuiThread ==
  /\ [][(GuiThreadVars' # GuiThreadVars) =>
          /\ \A j \in DOMAIN jobs : jobs'[j] = jobs[j]
          /\ \A j \in DOMAIN jobs' \ DOMAIN jobs :
               /\ jobs'[j].attempts = 0 /\ jobs'[j].sleeps = 0
               /\ jobs'[j].outcome = None
          /\ \A u \in UploaderIds :
               [up'[u] EXCEPT !.queue = up[u].queue, !.total = up[u].total,
                              !.unfinished = up[u].unfinished] = up[u]
       ]_vars
  /\ [][\A j \in DOMAIN jobs :
          (jobs'[j].attempts # jobs[j].attempts
             \/ jobs'[j].sleeps # jobs[j].sleeps) =>
            /\ up[jobs[j].uploader].pc \in {"attempt", "sleep"}
            /\ up[jobs[j].uploader].task = Some(up'[jobs[j].uploader].task[1])
            /\ up[jobs[j].uploader].task[1].id = j
            /\ GuiThreadVars' = GuiThreadVars]_vars

\* The booth shows the photo in Review while the worker has failed once,
\* waited and is at the second attempt for the job the capture enqueued.
C33_Witness ==
  /\ screen = SCREEN_REVIEW /\ gui.at = "loop" /\ round.enqueued = 1
  /\ \E j \in DOMAIN jobs :
       /\ jobs[j].attempts = 1 /\ jobs[j].sleeps = 1
       /\ up[jobs[j].uploader].pc = "attempt"

\* C34: emitting frame_ready does not hold the preview loop back, and a
\* frame acquired while an earlier one still awaits delivery to the GUI
\* thread is dropped, so at most one frame awaits delivery.
C34_SlowConsumerDrops ==
  /\ [][(pv.pc = "acquire" /\ pv'.pc = "sleep" /\ posted # <<>>) =>
          posted' = posted]_vars
  /\ [](Len(posted) <= 1)

\* C35: upload_sync and the worker, given the same retry_count and the same
\* responses of the endpoint, make the same number of requests and end with
\* a result of the same success flag and error message; upload_sync adds
\* one to total and one to successful or to failed, as the result says
\* (with no job of another thread to count, the counters show exactly the
\* calls made).
C35_SyncSameAsWorker ==
  /\ [](\A j \in JobIds :
          (jobs[j].outcome # None /\ up[1].sync.result # None) =>
            /\ jobs[j].outcome[1].success = up[1].sync.result[1].success
            /\ jobs[j].outcome[1].error_message
                 = up[1].sync.result[1].error_message
            /\ jobs[j].attempts = up[1].sync.attempts)
  /\ [][(up[1].sync.pc = "store_total" /\ up'[1].sync.pc = "upload") =>
          up'[1].total = up[1].sync.loaded + 1]_vars
  /\ [][(up[1].sync.pc = "store_count" /\ up'[1].sync.pc = "idle") =>
          IF up[1].sync.result[1].success
          THEN /\ up'[1].successful = up[1].sync.loaded + 1
               /\ up'[1].failed = up[1].failed
          ELSE /\ up'[1].failed = up[1].sync.loaded + 1
               /\ up'[1].successful = up[1].successful]_vars
  /\ []((jobs = <<>> /\ up[1].sync.pc = "idle") =>
          /\ up[1].total = up[1].sync.calls
          /\ up[1].successful + up[1].failed = up[1].sync.calls
          /\ up[1].sync.calls > 0 =>
               IF up[1].sync.result[1].success THEN up[1].successful > 0
               ELSE up[1].failed > 0)

\* Both paths have ended for a script that fails first and then succeeds:
\* two requests each, a success each.
C35_Witness ==
  /\ up[1].sync.pc = "idle" /\ up[1].sync.calls = 1
  /\ up[1].sync.attempts = 2 /\ up[1].sync.result[1].success
  /\ \E j \in JobIds : jobs[j].outcome # None /\ jobs[j].attempts = 2

\* C36: CameraThread.stop() returns whenever it is called, also when it is
\* called before run() has executed its first statement: while stop() waits
\* the loop's flag stays false, so that run() leaves the loop at its next
\* test and wait() returns (there being room for the frame the loop may
\* still emit).
C36_StopTerminates ==
  /\ []((gui.at = "stopping") => ~pv.running)
  /\ (gui.at = "stopping" /\ Len(posted) < MaxPending) ~> pv.stop_returned

\* C37: a first shutdown(wait = True) returns once the attempts have
\* ended, also when a callback raised for some job: every task taken from
\* the queue gets its task_done, and the worker goes on with the tasks that
\* follow.
C37_ShutdownAfterRaise ==
  /\ [](\A u \in UploaderIds :
          up[u].unfinished
            = Len(up[u].queue)
                + (IF up[u].pc \in {"attempt", "sleep", "resolve"}
                   THEN 1 ELSE 0))
  /\ (sd.pc = "drain" /\ sd.calls = 1) ~> (sd.pc = "idle")

\* The jobs of uploader u that are counted in total and not yet in
\* successful or failed, apart from the queued ones: the one the worker has
\* taken and the one a caller of upload_sync is uploading.
InFlight(u) ==
  (IF up[u].pc \in {"attempt", "sleep", "resolve"} THEN 1 ELSE 0)
    + (IF up[u].sync.pc \in {"upload", "store_count"} THEN 1 ELSE 0)

\* C38: total = successful + failed + pending + jobs in flight, in every
\* state, also while upload_sync runs in another thread.
C38_StatsConserved ==
  \A u \in UploaderIds :
    up[u].total
      = up[u].successful + up[u].failed + Len(up[u].queue) + InFlight(u)

\* C39: closeEvent disconnects the camera only when the camera thread, if
\* there is one, has left run(), and from then on the thread makes no call
\* on the camera; closing neither waits for the uploader's queued or
\* in-flight jobs nor touches them.
C39_StopBeforeDisconnect ==
  /\ [][CameraCalled("disconnect") =>
          (pv.exists => (pv.pc = "done" /\ ~pv.running))]_vars
  /\ [](gui.closed => (pv.pc \in {"done", "none"} /\ ~camera.connected))
  /\ [][gui.closed => pv'.pc = pv.pc]_vars
  /\ [][(gui'.closed /\ ~gui.closed) => (up' = up /\ jobs' = jobs)]_vars
  /\ []((gui.at = "loop" /\ ~gui.closed) => ENABLED CloseEvent)
  /\ []((gui.at = "stopping" /\ pv.pc = "done") => ENABLED StopReturn)

\* The window has closed and the camera is disconnected, the thread having
\* left run(), while the worker is in a request and another job is queued.
C39_Witness ==
  /\ gui.closed /\ pv.exists /\ pv.pc = "done" /\ pv.stop_returned
  /\ camera.ret[1].op = "disconnect"
  /\ up[1].pc = "attempt" /\ up[1].queue # <<>>

\* capture_photo returns a success without image bytes (None or b"") in this
\* step.
CaptureEmpty ==
  /\ gui.at = "capturing" /\ gui'.at = "loop"
  /\ round'.result # None
  /\ round'.result[1].success /\ ~Truthy(round'.result[1].image_data)

\* C40: a result with success = True and no image bytes is handled as a
\* failed capture: the booth goes from Countdown to Idle, and the review
\* screen, its timer, the disk and the upload queue are untouched.
C40_EmptySuccessIsFailure ==
  /\ [][CaptureEmpty =>
          /\ screen = SCREEN_COUNTDOWN /\ screen' = SCREEN_IDLE
          /\ review' = review /\ ~review'.timer
          /\ disk' = disk
          /\ jobs' = jobs /\ up' = up]_vars
  /\ []((round.result # None /\ round.result[1].success
           /\ ~Truthy(round.result[1].image_data)) =>
          /\ round.save = "none" /\ round.enqueued = 0
          /\ screen \in {SCREEN_IDLE, SCREEN_SETTINGS})

\* The camera reported a success with b"" while saving and uploading were
\* on: the booth is in Idle, nothing is on disk or in the queue.
C40_Witness ==
  /\ round.result # None /\ round.result[1].success
  /\ round.result[1].image_data = Some(<<>>)
  /\ settings.save_locally /\ settings.upload_on_capture /\ uploader # None
  /\ screen = SCREEN_IDLE /\ disk.files = {} /\ jobs = <<>>

====
